---- MODULE Spec2Model ----
(***************************************************************************)
(* A model of the Reddit MCP bridge: process start-up (RedditClient::new,  *)
(* main), the two request helpers (get_request, post_request) and the two  *)
(* tools built on them (get_access_token, search_subreddit_names).         *)
(*                                                                         *)
(* Strings of the program are TLA+ strings; format!() is concatenation.    *)
(* A JSON body is a tagged record; serde's decoding is DecodeToken and     *)
(* DecodeString below.  Every tool invocation runs in its own slot of      *)
(* `calls`; the slots interleave at the await points of the code.          *)
(***************************************************************************)
EXTENDS Integers, Sequences, FiniteSets, TLC

VARIABLES phase, env, dotfile, panic, client, config0, calls, budget, sent

vars == <<phase, env, dotfile, panic, client, config0, calls, budget, sent>>

--------------------------------------------------------------------------
(* Bounds of the model. *)

\* Tool invocations the host makes after construction (Spec).
MaxInvocations == 2
\* Tool invocations the host makes in the start-up specification.
StartupInvocations == 1

\* The slots in which invocations run concurrently.
Calls == {"c1", "c2"}

--------------------------------------------------------------------------
(* Constants of the program. *)

AUTH_URL == "https://www.reddit.com/api/v1/access_token"
BASE_URL == "https://oauth.reddit.com/api"
USER_AGENT == "reddit:mcp:v1 (by /u/boringly_boring)"
Sentinel == "Unable to fetch access_token from reddit"

--------------------------------------------------------------------------
(* Start-up: the environment, dotenv and RedditClient::new. *)

VarNames == <<"CLIENT_ID", "CLIENT_SECRET", "REDDIT_USERNAME", "REDDIT_PASSWORD",
              "REDIRECT_URL">>
VarSet == {VarNames[i] : i \in 1..Len(VarNames)}

\* The client field each setting fills.
FieldOf == [CLIENT_ID |-> "client_id", CLIENT_SECRET |-> "client_secret",
            REDDIT_USERNAME |-> "username", REDDIT_PASSWORD |-> "password",
            REDIRECT_URL |-> "redirect_url"]

\* The message of the expect() that guards each setting.
ExpectMsg == [CLIENT_ID |-> "Expected Client Id",
              CLIENT_SECRET |-> "Excepted Client Secret",
              REDDIT_USERNAME |-> "Expected Reddit Username",
              REDDIT_PASSWORD |-> "Execpted Reddit Password",
              REDIRECT_URL |-> "Exceped Redirect Url added during app registration"]

\* A variable of the process environment: unset, set to bytes that are not
\* Unicode, or set to a string (possibly the empty one).
Unset == [st |-> "unset", v |-> ""]
NotUnicode == [st |-> "notunicode", v |-> ""]
SetTo(s) == [st |-> "set", v |-> s]

\* A typical value of each setting.
Typical == [CLIENT_ID |-> "id", CLIENT_SECRET |-> "secret", REDDIT_USERNAME |-> "user",
            REDDIT_PASSWORD |-> "pass", REDIRECT_URL |-> "http://localhost"]

\* The process environments tried: every setting is unset or typical, and at
\* most one setting is instead empty or not Unicode.
EnvChoices ==
    LET base == {e \in [VarSet -> {"unset", "typical"}] : TRUE}
        Plain(b) == [n \in VarSet |-> IF b[n] = "unset" THEN Unset ELSE SetTo(Typical[n])]
    IN  {Plain(b) : b \in base}
        \cup {[Plain(b) EXCEPT ![n] = d] :
                b \in base, n \in VarSet, d \in {SetTo(""), NotUnicode}}

\* The .env files tried: none, and one that gives the client id.
NoFile == [n \in {} |-> ""]
DotFiles == {NoFile, [CLIENT_ID |-> "dotid"]}

\* std::env::var: an error when the variable is unset or not Unicode.
EnvVar(e, name) ==
    IF e[name].st = "set" THEN [ok |-> TRUE, v |-> e[name].v]
                          ELSE [ok |-> FALSE, v |-> ""]

\* dotenv(): each pair of the file is set unless env::var already reads the
\* variable; the result of dotenv() is dropped by .ok().
Dotenv(e, file) ==
    [n \in VarSet |-> IF ~EnvVar(e, n).ok /\ n \in DOMAIN file THEN SetTo(file[n])
                      ELSE e[n]]

NoClient == [built |-> FALSE, user_agent |-> "", client_id |-> "", client_secret |-> "",
             username |-> "", password |-> "", redirect_url |-> ""]

\* The message of the expect() on Client::builder().build().
HttpClientMsg == "Failed to create http client"

\* The first setting, in the order new() reads them, whose env::var fails
\* (0 when none does).
FirstFailing(e) ==
    LET bad == {i \in 1..Len(VarNames) : ~EnvVar(e, VarNames[i]).ok}
    IN  IF bad = {} THEN 0 ELSE CHOOSE i \in bad : \A j \in bad : i <= j

\* A faulty variant: a missing setting falls back to the empty string.
NewOutcomeDefaulting(e, file, http_ok) ==
    LET m == Dotenv(e, file)
    IN  IF ~http_ok
        THEN [ok |-> FALSE, panic |-> HttpClientMsg, client |-> NoClient]
        ELSE
        [ok |-> TRUE, panic |-> "",
         client |-> [built |-> TRUE, user_agent |-> USER_AGENT,
                     client_id |-> EnvVar(m, "CLIENT_ID").v,
                     client_secret |-> EnvVar(m, "CLIENT_SECRET").v,
                     username |-> EnvVar(m, "REDDIT_USERNAME").v,
                     password |-> EnvVar(m, "REDDIT_PASSWORD").v,
                     redirect_url |-> EnvVar(m, "REDIRECT_URL").v]]

\* A faulty variant: the username and password settings land in each other's field.
NewOutcomeSwapped(e, file, http_ok) ==
    LET m == Dotenv(e, file)
        f == FirstFailing(m)
    IN  IF ~http_ok
        THEN [ok |-> FALSE, panic |-> HttpClientMsg, client |-> NoClient]
        ELSE IF f # 0
        THEN [ok |-> FALSE, panic |-> ExpectMsg[VarNames[f]], client |-> NoClient]
        ELSE [ok |-> TRUE, panic |-> "",
              client |-> [built |-> TRUE, user_agent |-> USER_AGENT,
                          client_id |-> EnvVar(m, "CLIENT_ID").v,
                          client_secret |-> EnvVar(m, "CLIENT_SECRET").v,
                          username |-> EnvVar(m, "REDDIT_PASSWORD").v,
                          password |-> EnvVar(m, "REDDIT_USERNAME").v,
                          redirect_url |-> EnvVar(m, "REDIRECT_URL").v]]

\* RedditClient::new: dotenv, the HTTP client with its user agent (expect()
\* panics when it cannot be built), then the five settings in order, each
\* expect() panicking when env::var fails.
NewOutcome(e, file, http_ok) ==
    LET m == Dotenv(e, file)
        f == FirstFailing(m)
    IN  IF ~http_ok
        THEN [ok |-> FALSE, panic |-> HttpClientMsg, client |-> NoClient]
        ELSE IF f # 0
        THEN [ok |-> FALSE, panic |-> ExpectMsg[VarNames[f]], client |-> NoClient]
        ELSE [ok |-> TRUE, panic |-> "",
              client |-> [built |-> TRUE, user_agent |-> USER_AGENT,
                          client_id |-> EnvVar(m, "CLIENT_ID").v,
                          client_secret |-> EnvVar(m, "CLIENT_SECRET").v,
                          username |-> EnvVar(m, "REDDIT_USERNAME").v,
                          password |-> EnvVar(m, "REDDIT_PASSWORD").v,
                          redirect_url |-> EnvVar(m, "REDIRECT_URL").v]]

--------------------------------------------------------------------------
(* JSON bodies and serde's decoding of them. *)

JStr(s) == [t |-> "str", s |-> s, n |-> 0]
\* An integer that fits i32.
JInt(n) == [t |-> "int", s |-> "", n |-> n]
\* An integer outside the range of i32.
JBigInt == [t |-> "bigint", s |-> "", n |-> 0]
JNull == [t |-> "null", s |-> "", n |-> 0]
JObj(f) == [t |-> "obj", f |-> f, a |-> <<>>]
JArr(a) == [t |-> "arr", f |-> [k \in {} |-> JNull], a |-> a]
\* Bytes that are not JSON.
Malformed == [t |-> "malformed", f |-> [k \in {} |-> JNull], a |-> <<>>]
\* The connection breaks while the body is read.
ReadError == [t |-> "readerror", f |-> [k \in {} |-> JNull], a |-> <<>>]

\* The fields of AccessTokenResponse in declaration order, and the JSON type
\* serde accepts for each (String: a JSON string; i32: an integer in range).
TokenFields == <<"access_token", "expires_in", "scope", "token_type">>
TokenFieldType == [access_token |-> "str", expires_in |-> "int", scope |-> "str",
                   token_type |-> "str"]

NoToken == [access_token |-> "", expires_in |-> 0, scope |-> "", token_type |-> ""]

\* A faulty variant: a missing or mistyped field is filled with its default.
DecodeTokenLenient(b) ==
    LET Has(k) == b.t = "obj" /\ k \in DOMAIN b.f /\ b.f[k].t = TokenFieldType[k]
    IN  IF b.t \in {"malformed", "readerror"} THEN [ok |-> FALSE, token |-> NoToken]
        ELSE [ok |-> TRUE,
              token |-> [access_token |-> IF Has("access_token") THEN b.f["access_token"].s ELSE "",
                         expires_in |-> IF Has("expires_in") THEN b.f["expires_in"].n ELSE 0,
                         scope |-> IF Has("scope") THEN b.f["scope"].s ELSE "",
                         token_type |-> IF Has("token_type") THEN b.f["token_type"].s ELSE ""]]

\* response.json::<AccessTokenResponse>(): the derived Deserialize takes an
\* object that has every field with the right type (other keys are skipped)
\* or an array of exactly the four values in order; anything else is an error.
DecodeToken(b) ==
    IF b.t = "obj" /\ \A i \in 1..Len(TokenFields) :
                        /\ TokenFields[i] \in DOMAIN b.f
                        /\ b.f[TokenFields[i]].t = TokenFieldType[TokenFields[i]]
    THEN [ok |-> TRUE,
          token |-> [access_token |-> b.f["access_token"].s,
                     expires_in |-> b.f["expires_in"].n,
                     scope |-> b.f["scope"].s,
                     token_type |-> b.f["token_type"].s]]
    ELSE IF b.t = "arr" /\ Len(b.a) = Len(TokenFields)
              /\ \A i \in 1..Len(TokenFields) : b.a[i].t = TokenFieldType[TokenFields[i]]
    THEN [ok |-> TRUE,
          token |-> [access_token |-> b.a[1].s, expires_in |-> b.a[2].n,
                     scope |-> b.a[3].s, token_type |-> b.a[4].s]]
    ELSE [ok |-> FALSE, token |-> NoToken]

\* response.json::<String>(): only a JSON string decodes.
DecodeString(b) ==
    IF b.t = "str" THEN [ok |-> TRUE, str |-> b.s] ELSE [ok |-> FALSE, str |-> ""]

--------------------------------------------------------------------------
(* What the network may answer. *)

StatusCodes == {200, 201, 302, 401, 500}

\* The canonical reason phrase that StatusCode's Display prints.
Reason(s) ==
    CASE s = 200 -> "OK"
      [] s = 201 -> "Created"
      [] s = 302 -> "Found"
      [] s = 401 -> "Unauthorized"
      [] s = 500 -> "Internal Server Error"

\* Display of a StatusCode: the number and the reason phrase.
StatusDisplay(s) == ToString(s) \o " " \o Reason(s)

\* Bodies the token endpoint may send with a 200.
TokenBodies ==
    { JObj([access_token |-> JStr("abc123"), expires_in |-> JInt(3600),
            scope |-> JStr("*"), token_type |-> JStr("bearer")]),
      JObj([access_token |-> JStr(Sentinel), expires_in |-> JInt(-1),
            scope |-> JStr(""), token_type |-> JStr("mac")]),
      JObj([access_token |-> JStr(""), expires_in |-> JInt(0),
            scope |-> JStr("read"), token_type |-> JStr("bearer"),
            refresh_token |-> JStr("r1")]),
      JArr(<<JStr("tok2"), JInt(86400), JStr("read"), JStr("bearer")>>),
      JObj([access_token |-> JStr("abc123"), expires_in |-> JInt(3600),
            token_type |-> JStr("bearer")]),
      JObj([access_token |-> JStr("abc123"), expires_in |-> JBigInt,
            scope |-> JStr("*"), token_type |-> JStr("bearer")]),
      JObj([error |-> JStr("invalid_grant")]),
      Malformed,
      ReadError }

\* Bodies the search endpoint may send with a 200.
SearchBodies ==
    { JStr("python"),
      JObj([names |-> JArr(<<JStr("python"), JStr("pytorch")>>)]),
      Malformed,
      ReadError }

\* Display of the reqwest errors.
SendError == "error sending request"
BuilderError == "builder error"
DecodeError == "error decoding response body"

--------------------------------------------------------------------------
(* The arguments of search_subreddit_names and the identifiers it draws. *)

Queries == {"pyt"}
\* <<exact, include_over_18, include_unadvertisable, type_ahead>>; the two
\* tuples give each flag a pattern of its own.
FlagTuples == {<<FALSE, FALSE, TRUE, TRUE>>, <<TRUE, FALSE, TRUE, FALSE>>}
\* Access tokens a caller may pass: a token, and a string with a line feed
\* in it.
Tokens == {"abc123", "abc\n123"}
SearchArgs ==
    {[query |-> q, exact |-> f[1], include_over_18 |-> f[2],
      include_unadvertisable |-> f[3], type_ahead |-> f[4], access_token |-> t] :
        q \in Queries, f \in FlagTuples, t \in Tokens}
NoArgs == [query |-> "", exact |-> FALSE, include_over_18 |-> FALSE,
           include_unadvertisable |-> FALSE, type_ahead |-> FALSE, access_token |-> ""]

\* The values Uuid::new_v4() may draw, and Uuid's Display (hyphenated, lower case).
Uuids == {1, 2}
UuidToString(u) ==
    IF u = 1 THEN "6fa459ea-ee8a-4ca4-894e-db77e160355e"
             ELSE "16fd2706-8baf-433b-82eb-8c7fada847da"

\* serde_urlencoded writes a bool as true or false.
BoolToStr(b) == IF b THEN "true" ELSE "false"

\* HeaderValue accepts visible ASCII, space and tab, and refuses a line
\* feed: of the header values that arise here, only the one made from the
\* token with a line feed is refused.
HeaderValueOk(s) == s # "Bearer abc\n123"

--------------------------------------------------------------------------
(* The state of one tool invocation. *)

NoReq == [method |-> "", url |-> "", user_agent |-> "", authorization |-> "",
          basic |-> <<>>, params |-> <<>>]
NoBody == JNull
NoRes == [set |-> FALSE, ok |-> FALSE, token |-> NoToken, str |-> "", err |-> ""]
NoRet == [type |-> "none", val |-> ""]
Ok(v) == [type |-> "Ok", val |-> v]
Err(e) == [type |-> "Err", val |-> e]
Str(v) == [type |-> "String", val |-> v]

Idle == [pc |-> "idle", op |-> "none", args |-> NoArgs, uuid |-> 0, form |-> <<>>,
         req |-> NoReq, sends |-> 0, net |-> "none", status |-> 0, body |-> NoBody,
         decoded |-> FALSE, res |-> NoRes, logged |-> FALSE, ret |-> NoRet]

ResOkToken(t) == [set |-> TRUE, ok |-> TRUE, token |-> t, str |-> "", err |-> ""]
ResOkStr(v) == [set |-> TRUE, ok |-> TRUE, token |-> NoToken, str |-> v, err |-> ""]
ResErr(e) == [set |-> TRUE, ok |-> FALSE, token |-> NoToken, str |-> "", err |-> e]

--------------------------------------------------------------------------
(* The pieces of the handlers. *)

\* get_access_token builds the form from the client's username and password.
AccessTokenRequest(c) ==
    <<<<"grant_type", "password">>, <<"username", c.username>>,
      <<"password", c.password>>>>

\* post_request: POST with basic auth from client id and secret, the user
\* agent, and the form.
PostRequest(c, url, form) ==
    [method |-> "POST", url |-> url, user_agent |-> USER_AGENT, authorization |-> "",
     basic |-> <<c.client_id, c.client_secret>>, params |-> form]

\* A faulty variant: typeahead_active is filled from exact.
SearchSubredditNameRequestSwapped(a, u) ==
    <<<<"exact", BoolToStr(a.exact)>>,
      <<"include_over_18", BoolToStr(a.include_over_18)>>,
      <<"include_unadvertisable", BoolToStr(a.include_unadvertisable)>>,
      <<"query", a.query>>,
      <<"search_query_id", UuidToString(u)>>,
      <<"typeahead_active", BoolToStr(a.exact)>>>>

\* search_subreddit_names builds the query struct, in its field order.
SearchSubredditNameRequest(a, u) ==
    <<<<"exact", BoolToStr(a.exact)>>,
      <<"include_over_18", BoolToStr(a.include_over_18)>>,
      <<"include_unadvertisable", BoolToStr(a.include_unadvertisable)>>,
      <<"query", a.query>>,
      <<"search_query_id", UuidToString(u)>>,
      <<"typeahead_active", BoolToStr(a.type_ahead)>>>>

SearchUrl == BASE_URL \o "/search_reddit_names"
AuthToken(access_token) == "Bearer " \o access_token

\* get_request: GET with the user agent, the Authorization header as given,
\* and the query parameters.
GetRequest(url, auth_token, query) ==
    [method |-> "GET", url |-> url, user_agent |-> USER_AGENT,
     authorization |-> auth_token, basic |-> <<>>, params |-> query]

\* A faulty variant: every 2xx status takes the success arm.
IsSuccess(status) == status \in 200..299

\* The arm StatusCode::OK of the match on response.status(): only 200.
IsOk(status) == status = 200

\* The map_err on send() of post_request and of get_request.
PostSendErr(e) == ResErr("PSOT request failed: " \o e)
GetSendErr(e) == ResErr("Request failed: " \o e)

\* The match on response.status() of post_request.
PostMatchRes(status, body) ==
    IF IsOk(status)
    THEN LET d == DecodeToken(body)
         IN  IF d.ok THEN ResOkToken(d.token)
             ELSE ResErr("Failed to parse the request: " \o DecodeError)
    ELSE ResErr("Request failed with status: " \o StatusDisplay(status))

\* The match on response.status() of get_request.
GetMatchRes(status, body) ==
    IF IsOk(status)
    THEN LET d == DecodeString(body)
         IN  IF d.ok THEN ResOkStr(d.str)
             ELSE ResErr("Failed to parse the response: " \o DecodeError)
    ELSE ResErr("Request failed with status: " \o StatusDisplay(status))

\* A faulty variant: the token type is put in front of the token.
TokenOfPrefixed(token) == token.token_type \o " " \o token.access_token

\* The Ok arm of get_access_token's match.
TokenOf(token) == token.access_token

\* A faulty variant: the value a tool returned is kept in the client.
ClientAfterStoring(c, r) == [c EXCEPT !.password = r.val]

\* What a tool call leaves in the client: the handlers take &self.
ClientAfter(c, r) == c

--------------------------------------------------------------------------
(* Start-up actions. *)

\* RedditClient::new(), called by main once.
New ==
    /\ phase = "start"
    /\ \E http_ok \in BOOLEAN :
         LET o == NewOutcome(env, dotfile, http_ok)
         IN  /\ phase' = IF o.ok THEN "constructed" ELSE "panicked"
             /\ panic' = o.panic
             /\ client' = o.client
             /\ config0' = o.client
    /\ UNCHANGED <<env, dotfile, calls, budget, sent>>

\* .serve(stdio()).await succeeds: the tools can be invoked.
Serve ==
    /\ phase = "constructed"
    /\ phase' = "serving"
    /\ UNCHANGED <<env, dotfile, panic, client, config0, calls, budget, sent>>

\* .serve(stdio()).await fails: main logs the error and returns it.
ServeFail ==
    /\ phase = "constructed"
    /\ phase' = "exited"
    /\ UNCHANGED <<env, dotfile, panic, client, config0, calls, budget, sent>>

--------------------------------------------------------------------------
(* get_access_token and post_request. *)

Set(c, r) == calls' = [calls EXCEPT ![c] = r]

GatInvoke(c) ==
    /\ phase = "serving" /\ budget > 0
    /\ calls[c].pc = "idle"
    /\ Set(c, [Idle EXCEPT !.pc = "post_send", !.op = "get_access_token",
                           !.form = AccessTokenRequest(client)])
    /\ budget' = budget - 1
    /\ UNCHANGED <<phase, env, dotfile, panic, client, config0, sent>>

\* post_request up to send(): the request is built and handed to the network.
PostSend(c) ==
    /\ calls[c].pc = "post_send"
    /\ Set(c, [calls[c] EXCEPT !.pc = "post_await",
                               !.req = PostRequest(client, AUTH_URL, calls[c].form),
                               !.sends = @ + 1])
    /\ sent' = sent + 1
    /\ UNCHANGED <<phase, env, dotfile, panic, client, config0, budget>>

\* A faulty variant: a transport error is answered by sending once more.
PostReceiveRetrying(c) ==
    /\ calls[c].pc = "post_await"
    /\ \/ /\ calls[c].sends < 2
          /\ Set(c, [calls[c] EXCEPT !.pc = "post_send"])
       \/ /\ calls[c].sends >= 2
          /\ Set(c, [calls[c] EXCEPT !.pc = "gat_match", !.net = "transport",
                                     !.res = PostSendErr(SendError)])
       \/ \E s \in StatusCodes :
            Set(c, [calls[c] EXCEPT !.pc = "post_status", !.net = "response",
                                    !.status = s])
    /\ UNCHANGED <<phase, env, dotfile, panic, client, config0, budget, sent>>

\* send().await returns: a transport error, or a response with its status.
PostReceive(c) ==
    /\ calls[c].pc = "post_await"
    /\ \/ Set(c, [calls[c] EXCEPT !.pc = "gat_match", !.net = "transport",
                                  !.res = PostSendErr(SendError)])
       \/ \E s \in StatusCodes :
            Set(c, [calls[c] EXCEPT !.pc = "post_status", !.net = "response",
                                    !.status = s])
    /\ UNCHANGED <<phase, env, dotfile, panic, client, config0, budget, sent>>

\* The match on the status: on 200 the body is read and decoded.
PostMatch(c) ==
    /\ calls[c].pc = "post_status"
    /\ \/ /\ IsOk(calls[c].status)
          /\ \E b \in TokenBodies :
               Set(c, [calls[c] EXCEPT !.pc = "gat_match", !.body = b, !.decoded = TRUE,
                                       !.res = PostMatchRes(calls[c].status, b)])
       \/ /\ ~IsOk(calls[c].status)
          /\ Set(c, [calls[c] EXCEPT !.pc = "gat_match",
                                     !.res = PostMatchRes(calls[c].status, NoBody)])
    /\ UNCHANGED <<phase, env, dotfile, panic, client, config0, budget, sent>>

\* Ok(token) => token.access_token
GatReturnToken(c) ==
    /\ calls[c].pc = "gat_match" /\ calls[c].res.ok
    /\ LET r == Str(TokenOf(calls[c].res.token))
       IN  /\ Set(c, [calls[c] EXCEPT !.pc = "done", !.ret = r])
           /\ client' = ClientAfter(client, r)
    /\ UNCHANGED <<phase, env, dotfile, panic, config0, budget, sent>>

\* A faulty variant: the Err arm does not log.
GatLogErrorSilent(c) ==
    /\ calls[c].pc = "gat_match" /\ ~calls[c].res.ok
    /\ Set(c, [calls[c] EXCEPT !.pc = "gat_logged"])
    /\ UNCHANGED <<phase, env, dotfile, panic, client, config0, budget, sent>>

\* Err(e) => tracing::error!(...)
GatLogError(c) ==
    /\ calls[c].pc = "gat_match" /\ ~calls[c].res.ok
    /\ Set(c, [calls[c] EXCEPT !.pc = "gat_logged", !.logged = TRUE])
    /\ UNCHANGED <<phase, env, dotfile, panic, client, config0, budget, sent>>

\* ... then the sentinel is the value of the Err arm.
GatReturnSentinel(c) ==
    /\ calls[c].pc = "gat_logged"
    /\ LET r == Str(Sentinel)
       IN  /\ Set(c, [calls[c] EXCEPT !.pc = "done", !.ret = r])
           /\ client' = ClientAfter(client, r)
    /\ UNCHANGED <<phase, env, dotfile, panic, config0, budget, sent>>

--------------------------------------------------------------------------
(* search_subreddit_names and get_request. *)

SearchInvoke(c) ==
    /\ phase = "serving" /\ budget > 0
    /\ calls[c].pc = "idle"
    /\ \E a \in SearchArgs, u \in Uuids :
         Set(c, [Idle EXCEPT !.pc = "get_send", !.op = "search_subreddit_names",
                             !.args = a, !.uuid = u,
                             !.form = SearchSubredditNameRequest(a, u)])
    /\ budget' = budget - 1
    /\ UNCHANGED <<phase, env, dotfile, panic, client, config0, sent>>

\* get_request up to send(): a header value that is refused makes send()
\* return the builder's error and nothing goes out.
GetSend(c) ==
    /\ calls[c].pc = "get_send"
    /\ LET auth == AuthToken(calls[c].args.access_token)
       IN  \/ /\ HeaderValueOk(auth)
              /\ Set(c, [calls[c] EXCEPT !.pc = "get_await",
                                         !.req = GetRequest(SearchUrl, auth, calls[c].form),
                                         !.sends = @ + 1])
              /\ sent' = sent + 1
           \/ /\ ~HeaderValueOk(auth)
              /\ Set(c, [calls[c] EXCEPT !.pc = "search_ret", !.net = "builder",
                                         !.res = GetSendErr(BuilderError)])
              /\ sent' = sent
    /\ UNCHANGED <<phase, env, dotfile, panic, client, config0, budget>>

GetReceive(c) ==
    /\ calls[c].pc = "get_await"
    /\ \/ Set(c, [calls[c] EXCEPT !.pc = "search_ret", !.net = "transport",
                                  !.res = GetSendErr(SendError)])
       \/ \E s \in StatusCodes :
            Set(c, [calls[c] EXCEPT !.pc = "get_status", !.net = "response",
                                    !.status = s])
    /\ UNCHANGED <<phase, env, dotfile, panic, client, config0, budget, sent>>

GetMatch(c) ==
    /\ calls[c].pc = "get_status"
    /\ \/ /\ IsOk(calls[c].status)
          /\ \E b \in SearchBodies :
               Set(c, [calls[c] EXCEPT !.pc = "search_ret", !.body = b, !.decoded = TRUE,
                                       !.res = GetMatchRes(calls[c].status, b)])
       \/ /\ ~IsOk(calls[c].status)
          /\ Set(c, [calls[c] EXCEPT !.pc = "search_ret",
                                     !.res = GetMatchRes(calls[c].status, NoBody)])
    /\ UNCHANGED <<phase, env, dotfile, panic, client, config0, budget, sent>>

\* search_response is returned as it is.
SearchReturn(c) ==
    /\ calls[c].pc = "search_ret"
    /\ LET r == IF calls[c].res.ok THEN Ok(calls[c].res.str) ELSE Err(calls[c].res.err)
       IN  /\ Set(c, [calls[c] EXCEPT !.pc = "done", !.ret = r])
           /\ client' = ClientAfter(client, r)
    /\ UNCHANGED <<phase, env, dotfile, panic, config0, budget, sent>>

\* The host has taken the result; the slot is free for the next invocation.
Release(c) ==
    /\ calls[c].pc = "done"
    /\ Set(c, Idle)
    /\ UNCHANGED <<phase, env, dotfile, panic, client, config0, budget, sent>>

--------------------------------------------------------------------------
(* The specifications. *)

Step(c) ==
    \/ GatInvoke(c) \/ PostSend(c) \/ PostReceive(c) \/ PostMatch(c)
    \/ GatReturnToken(c) \/ GatLogError(c) \/ GatReturnSentinel(c)
    \/ SearchInvoke(c) \/ GetSend(c) \/ GetReceive(c) \/ GetMatch(c)
    \/ SearchReturn(c) \/ Release(c)

\* The environments of the serving specification: every setting typical, and
\* the same with an empty password.
ServingEnvs ==
    LET all == [n \in VarSet |-> SetTo(Typical[n])]
    IN  {all, [all EXCEPT !["REDDIT_PASSWORD"] = SetTo("")]}

\* The server after construction, serving.
Init ==
    /\ env \in ServingEnvs
    /\ dotfile = NoFile
    /\ phase = "serving"
    /\ panic = ""
    /\ client = NewOutcome(env, dotfile, TRUE).client
    /\ config0 = client
    /\ calls = [c \in Calls |-> Idle]
    /\ budget = MaxInvocations
    /\ sent = 0

Next == \E c \in Calls : Step(c)

Spec == Init /\ [][Next]_vars

\* The process at its start, before RedditClient::new().
InitStartup ==
    /\ env \in EnvChoices
    /\ dotfile \in DotFiles
    /\ phase = "start"
    /\ panic = ""
    /\ client = NoClient
    /\ config0 = NoClient
    /\ calls = [c \in Calls |-> Idle]
    /\ budget = StartupInvocations
    /\ sent = 0

NextStartup == New \/ Serve \/ ServeFail \/ Next

SpecStartup == InitStartup /\ [][NextStartup]_vars

\* The serving specification with the scheduling of the runtime: a handler
\* that is past its network await is run until it returns.
Local(c) ==
    \/ /\ ~IsOk(calls[c].status) /\ PostMatch(c)
    \/ /\ ~IsOk(calls[c].status) /\ GetMatch(c)
    \/ GatReturnToken(c) \/ GatLogError(c) \/ GatReturnSentinel(c) \/ SearchReturn(c)

FairSpec == Spec /\ \A c \in Calls : WF_vars(Local(c))

--------------------------------------------------------------------------
(* Vocabulary of the properties. *)

IsGat(c) == calls[c].op = "get_access_token"
IsSearch(c) == calls[c].op = "search_subreddit_names"
Done(c) == calls[c].pc = "done"

\* The request helper of the invocation has produced its result.
Resolved(c) == calls[c].res.set

\* What the network did to the invocation, whatever the code made of it.
TransportFailed(c) == calls[c].net = "transport"
BadStatus(c) == calls[c].net = "response" /\ calls[c].status # 200
Status200(c) == calls[c].net = "response" /\ calls[c].status = 200

\* A body that is an AccessTokenResponse: an object with the four fields,
\* each of its JSON type, or the four values as an array.
IsTokenBody(b) ==
    \/ /\ b.t = "obj"
       /\ {"access_token", "expires_in", "scope", "token_type"} \subseteq DOMAIN b.f
       /\ b.f["access_token"].t = "str" /\ b.f["expires_in"].t = "int"
       /\ b.f["scope"].t = "str" /\ b.f["token_type"].t = "str"
    \/ /\ b.t = "arr" /\ Len(b.a) = 4
       /\ b.a[1].t = "str" /\ b.a[2].t = "int" /\ b.a[3].t = "str" /\ b.a[4].t = "str"

\* The access_token field of such a body.
BodyAccessToken(b) == IF b.t = "obj" THEN b.f["access_token"].s ELSE b.a[1].s

\* The value of a query or form parameter of a request.
Param(req, k) ==
    LET i == CHOOSE i \in 1..Len(req.params) : req.params[i][1] = k
    IN  req.params[i][2]
HasParam(req, k) == \E i \in 1..Len(req.params) : req.params[i][1] = k

--------------------------------------------------------------------------
(* Properties of get_access_token. *)

\* C1: when the token endpoint answers 200 with a body that is an
\* AccessTokenResponse, get_access_token returns the access_token field of
\* that body, as it is, whatever the other three fields hold.
C1_ReturnsAccessToken ==
    \A c \in Calls :
        (IsGat(c) /\ Done(c) /\ Status200(c) /\ IsTokenBody(calls[c].body))
            => calls[c].ret = Str(BodyAccessToken(calls[c].body))

\* A call has returned the token of the array body, whose expires_in and
\* scope differ from the usual ones.
C1_Witness ==
    \E c \in Calls :
        /\ IsGat(c) /\ Done(c) /\ Status200(c)
        /\ calls[c].body.t = "arr"
        /\ calls[c].ret = Str("tok2")

\* The invocation failed: no response, a status other than 200, or a 200
\* whose body is not an AccessTokenResponse.
GatFailed(c) ==
    \/ TransportFailed(c)
    \/ BadStatus(c)
    \/ Status200(c) /\ calls[c].decoded /\ ~IsTokenBody(calls[c].body)

\* C2: on every failure path get_access_token returns a plain string, the
\* sentinel, and the error was logged before it returned.
C2_FailureGivesSentinel ==
    /\ [](\A c \in Calls :
            (IsGat(c) /\ Done(c) /\ GatFailed(c))
                => /\ calls[c].ret = Str(Sentinel)
                   /\ calls[c].logged)
    /\ [][\A c \in Calls :
            (IsGat(c) /\ GatFailed(c) /\ ~Done(c) /\ calls'[c].pc = "done")
                => calls[c].logged]_vars

\* Two calls have returned the sentinel, one after a 401 and one after a 200
\* with a body that is not JSON; both had logged the error.
C2_Witness ==
    \E c \in Calls :
        /\ IsGat(c) /\ Done(c) /\ calls[c].status = 401
        /\ calls[c].ret = Str(Sentinel) /\ calls[c].logged
        /\ \E d \in Calls :
             /\ IsGat(d) /\ Done(d) /\ Status200(d) /\ calls[d].body = Malformed
             /\ calls[d].ret = Str(Sentinel) /\ calls[d].logged

--------------------------------------------------------------------------
(* Properties of get_request and post_request. *)

\* C3: when the status is not 200, get_request and post_request never decode
\* the body and their result is the error that names that status.
C3_NonOkNeverDecoded ==
    \A c \in Calls :
        BadStatus(c) =>
            /\ ~calls[c].decoded
            /\ Resolved(c) =>
                 /\ ~calls[c].res.ok
                 /\ calls[c].res.err =
                      "Request failed with status: " \o ToString(calls[c].status)
                          \o " " \o Reason(calls[c].status)

\* A POST answered 201 and a GET answered 302 have both produced their error.
C3_Witness ==
    \E c, d \in Calls :
        /\ IsGat(c) /\ calls[c].status = 201 /\ Resolved(c)
        /\ IsSearch(d) /\ calls[d].status = 302 /\ Resolved(d)

\* The errors that post_request and get_request give for a transport
\* failure and for a status.
TransportAndStatusErrors ==
    {"PSOT request failed: " \o e : e \in {SendError, BuilderError}}
    \cup {"Request failed: " \o e : e \in {SendError, BuilderError}}
    \cup {"Request failed with status: " \o StatusDisplay(st) : st \in StatusCodes}

\* C4: a 200 whose body is not of the expected type gives the decode error,
\* which is none of the transport and status errors; a success carries
\* exactly the values of the body, never a default.
C4_BadBodyGivesDecodeError ==
    \A c \in Calls :
        (Status200(c) /\ Resolved(c)) =>
            /\ (IsGat(c) /\ ~IsTokenBody(calls[c].body)) =>
                 /\ ~calls[c].res.ok
                 /\ calls[c].res.err = "Failed to parse the request: " \o DecodeError
            /\ (IsSearch(c) /\ calls[c].body.t # "str") =>
                 /\ ~calls[c].res.ok
                 /\ calls[c].res.err = "Failed to parse the response: " \o DecodeError
            /\ ~calls[c].res.ok => calls[c].res.err \notin TransportAndStatusErrors
            /\ (IsSearch(c) /\ calls[c].res.ok) =>
                 calls[c].body.t = "str" /\ calls[c].res.str = calls[c].body.s
            /\ (IsGat(c) /\ calls[c].res.ok) => IsTokenBody(calls[c].body)
            /\ (IsGat(c) /\ calls[c].res.ok /\ calls[c].body.t = "obj") =>
                 /\ calls[c].res.token.access_token = calls[c].body.f["access_token"].s
                 /\ calls[c].res.token.expires_in = calls[c].body.f["expires_in"].n
                 /\ calls[c].res.token.scope = calls[c].body.f["scope"].s
                 /\ calls[c].res.token.token_type = calls[c].body.f["token_type"].s

\* A POST has met a 200 body without scope and a GET a 200 body that is an
\* object; both hold the decode error.
C4_Witness ==
    \E c, d \in Calls :
        /\ IsGat(c) /\ Status200(c) /\ Resolved(c) /\ ~calls[c].res.ok
        /\ calls[c].body.t = "obj" /\ "scope" \notin DOMAIN calls[c].body.f
        /\ "access_token" \in DOMAIN calls[c].body.f
        /\ IsSearch(d) /\ Status200(d) /\ Resolved(d) /\ ~calls[d].res.ok
        /\ calls[d].body.t = "obj"

--------------------------------------------------------------------------
(* Properties of construction. *)

\* A setting is missing: the process environment does not set it and the
\* .env file does not give it.
Missing(n) == env[n].st = "unset" /\ n \notin DOMAIN dotfile

\* The value of a setting: the one of the process environment when that
\* reads as a string, else the one of the .env file.
Setting(n) == IF env[n].st = "set" THEN env[n].v ELSE dotfile[n]
HasSetting(n) == env[n].st = "set" \/ n \in DOMAIN dotfile

\* C5: when one of the five settings is missing, RedditClient::new fails: no
\* client exists, the server never serves, and no HTTP request is sent.
C5_MissingSettingFailsFast ==
    (\E n \in VarSet : Missing(n)) =>
        /\ phase \in {"start", "panicked"}
        /\ ~client.built
        /\ sent = 0
        /\ \A c \in Calls : calls[c] = Idle

\* new() has panicked on a configuration that lacks only the redirect URL.
C5_Witness ==
    /\ phase = "panicked"
    /\ panic = "Exceped Redirect Url added during app registration"
    /\ Missing("REDIRECT_URL")
    /\ \A n \in VarSet \ {"REDIRECT_URL"} : ~Missing(n)

\* C6 as stated: every client that construction produces has five non-empty
\* fields, and an empty setting makes construction fail.
C6_FieldsNonEmpty ==
    client.built =>
        /\ \A n \in VarSet : client[FieldOf[n]] # ""
        /\ \A n \in VarSet : HasSetting(n) => Setting(n) # ""

\* C6, amended: every client that construction produces has its five fields
\* present, each holding the value of its setting, which may be the empty
\* string; an empty setting does not make construction fail: when every
\* setting is given, new() panics on none of them.
C6_FieldsPresent ==
    /\ client.built =>
         \A n \in VarSet : HasSetting(n) /\ client[FieldOf[n]] = Setting(n)
    /\ (phase # "start" /\ \A n \in VarSet : HasSetting(n)) =>
         \/ client.built
         \/ phase = "panicked" /\ panic = "Failed to create http client"

\* A client has been built, and serves, with an empty password.
C6_Witness ==
    /\ phase = "serving" /\ client.built
    /\ HasSetting("REDDIT_PASSWORD") /\ Setting("REDDIT_PASSWORD") = ""
    /\ client.password = ""

--------------------------------------------------------------------------
(* Properties of search_subreddit_names. *)

\* The invocation is past send() of get_request and the request went out.
SearchSent(c) ==
    /\ IsSearch(c)
    /\ calls[c].pc \in {"get_await", "get_status", "search_ret", "done"}
    /\ calls[c].net # "builder"

\* C7: the one request of a search_subreddit_names call is a GET to
\* https://oauth.reddit.com/api/search_reddit_names with the header
\* Authorization: Bearer <the caller's access_token>, and query parameters
\* query, exact, include_over_18 and include_unadvertisable as passed and
\* typeahead_active as type_ahead.
C7_SearchRequestShape ==
    \A c \in Calls :
        SearchSent(c) =>
            LET r == calls[c].req
                a == calls[c].args
                Flag(k, b) == HasParam(r, k) /\ Param(r, k) = (IF b THEN "true" ELSE "false")
            IN  /\ calls[c].sends = 1
                /\ r.method = "GET"
                /\ r.url = "https://oauth.reddit.com/api/search_reddit_names"
                /\ r.authorization = "Bearer " \o a.access_token
                /\ HasParam(r, "query") /\ Param(r, "query") = a.query
                /\ Flag("exact", a.exact)
                /\ Flag("include_over_18", a.include_over_18)
                /\ Flag("include_unadvertisable", a.include_unadvertisable)
                /\ Flag("typeahead_active", a.type_ahead)

\* The call searchSubredditNames("pyt", false, false, true, true, "abc123")
\* has sent its request, with Bearer abc123 and typeahead_active=true.
C7_Witness ==
    \E c \in Calls :
        /\ SearchSent(c)
        /\ calls[c].args = [query |-> "pyt", exact |-> FALSE, include_over_18 |-> FALSE,
                            include_unadvertisable |-> TRUE, type_ahead |-> TRUE,
                            access_token |-> "abc123"]
        /\ calls[c].req.authorization = "Bearer abc123"
        /\ Param(calls[c].req, "typeahead_active") = "true"
        /\ Param(calls[c].req, "exact") = "false"

--------------------------------------------------------------------------
(* Properties of every invocation. *)

\* The invocation failed: the request was refused or lost, the status was
\* not 200, or the 200 body was not of the expected type.
Failed(c) ==
    \/ calls[c].net = "builder"
    \/ TransportFailed(c)
    \/ BadStatus(c)
    \/ /\ Status200(c) /\ calls[c].decoded
       /\ \/ IsGat(c) /\ ~IsTokenBody(calls[c].body)
          \/ IsSearch(c) /\ calls[c].body.t # "str"

\* The failure is what the invocation returned: the sentinel from
\* get_access_token, the error message from search_subreddit_names.
FailureReturned(c) ==
    /\ Done(c)
    /\ IsGat(c) => calls[c].ret = Str(Sentinel)
    /\ IsSearch(c) => calls[c].ret = Err(calls[c].res.err)

\* C9: an invocation sends at most one HTTP request; once it has failed it
\* sends nothing more, and it completes, returning that failure.
C9_NoRetry ==
    /\ [](/\ \A c \in Calls : calls[c].sends <= 1
          /\ sent + budget <= MaxInvocations
          /\ \A c \in Calls : (Done(c) /\ Failed(c)) => FailureReturned(c))
    /\ [][\A c \in Calls : Failed(c) => calls'[c].sends <= calls[c].sends]_vars
    /\ \A c \in Calls : Failed(c) ~> FailureReturned(c)

\* A get_access_token call that lost its request and a search call that got
\* a 500 have both returned, each after one request.
C9_Witness ==
    \E c, d \in Calls :
        /\ IsGat(c) /\ TransportFailed(c) /\ FailureReturned(c) /\ calls[c].sends = 1
        /\ IsSearch(d) /\ calls[d].status = 500 /\ FailureReturned(d)
        /\ calls[d].sends = 1
        /\ sent = 2

\* The request an invocation sends when it runs alone on the client as
\* constructed.
AloneReq(c) ==
    IF IsGat(c) THEN PostRequest(config0, AUTH_URL, AccessTokenRequest(config0))
    ELSE GetRequest(SearchUrl, AuthToken(calls[c].args.access_token),
                    SearchSubredditNameRequest(calls[c].args, calls[c].uuid))

\* The value it returns when it runs alone and the network answers as it did.
AloneRet(c) ==
    IF IsGat(c)
    THEN IF Status200(c) /\ DecodeToken(calls[c].body).ok
         THEN Str(DecodeToken(calls[c].body).token.access_token)
         ELSE Str(Sentinel)
    ELSE IF calls[c].net = "builder" THEN Err("Request failed: " \o BuilderError)
    ELSE IF calls[c].net = "transport" THEN Err("Request failed: " \o SendError)
    ELSE LET r == GetMatchRes(calls[c].status, calls[c].body)
         IN  IF r.ok THEN Ok(r.str) ELSE Err(r.err)

\* C10: no invocation changes the client: its fields stay as constructed and
\* no returned token is kept in it, so every invocation, however the calls
\* interleave, sends the request and returns the value it would alone; the
\* search request carries the access_token its own caller passed.
C10_ClientNeverChanges ==
    /\ client = config0
    /\ \A c \in Calls :
         /\ calls[c].sends > 0 => calls[c].req = AloneReq(c)
         /\ Done(c) => calls[c].ret = AloneRet(c)
         /\ (IsSearch(c) /\ calls[c].sends > 0) =>
              calls[c].req.authorization = "Bearer " \o calls[c].args.access_token

\* While a get_access_token call has returned the token tok2, a search call
\* that was passed abc123 has completed with abc123 as its bearer token.
C10_Witness ==
    \E c, d \in Calls :
        /\ IsGat(c) /\ Done(c) /\ calls[c].ret = Str("tok2")
        /\ IsSearch(d) /\ Done(d) /\ calls[d].args.access_token = "abc123"
        /\ calls[d].req.authorization = "Bearer abc123"
        /\ client = config0

====
